---- MODULE Spec2Model ----
(***************************************************************************)
(* The smoke-test cell of demo_notebook and deployment_notebook (the two   *)
(* cells are the same five print statements).  Text is modelled as         *)
(* sequences of one-character strings, standard output as the character    *)
(* stream the print calls write, and the ambient values (clock,            *)
(* interpreter version, platform string, environment table) as inputs      *)
(* drawn from small sets.                                                  *)
(***************************************************************************)
EXTENDS Integers, Sequences, FiniteSets, TLC

\* ------------------------------------------------------------------ bounds
\* Largest number of environment variables of an enumerated environment.
MaxVars == 15
\* Largest number of times the host runs the cell in one process.
MaxRuns == 2

\* ---------------------------------------------------------------- constants
\* The slice bound of sorted(...)[:10].
SampleSize == 10

\* ------------------------------------------------------------------- text
NL == "\n"
\* The check-mark glyph U+2705 that ends the greeting, as one character.
CHECK_MARK == "U+2705"

Min(a, b) == IF a <= b THEN a ELSE b

\* The characters environment variable names are built from, each with its
\* code point.
CodePoints ==
    {
      <<"\n", 10>>, <<"\"", 34>>, <<"'", 39>>, <<"A", 65>>,
      <<"C", 67>>, <<"E", 69>>, <<"G", 71>>, <<"H", 72>>,
      <<"L", 76>>, <<"M", 77>>, <<"N", 78>>, <<"O", 79>>,
      <<"P", 80>>, <<"R", 82>>, <<"S", 83>>, <<"T", 84>>,
      <<"U", 85>>, <<"X", 88>>, <<"Z", 90>>, <<"\\", 92>>,
      <<"_", 95>>, <<"a", 97>>, <<"b", 98>>, <<"c", 99>>,
      <<"e", 101>>, <<"h", 104>>, <<"i", 105>>, <<"m", 109>>,
      <<"o", 111>>, <<"q", 113>>, <<"s", 115>>, <<"t", 116>> }

OrdTable == [c \in { p[1] : p \in CodePoints } |-> (CHOOSE p \in CodePoints : p[1] = c)[2]]

\* ord(c)
Ord(c) == OrdTable[c]

\* str.__lt__: the code points at the first position where the two texts
\* differ decide; when there is none the shorter text, a prefix, is smaller.
str_lt(a, b) ==
    LET n == Min(Len(a), Len(b))
        diff == { i \in 1..n : a[i] # b[i] }
    IN  IF diff = {} THEN Len(a) < Len(b)
        ELSE LET i == CHOOSE d \in diff : \A e \in diff : d <= e
             IN  Ord(a[i]) < Ord(b[i])

\* The place of s[i] in the stable ascending order of s: after every smaller
\* element and after every equal element that comes before it.
rank(s, i) ==
    1 + Cardinality({ j \in 1..Len(s) :
            \/ str_lt(s[j], s[i])
            \/ (~str_lt(s[i], s[j]) /\ j < i) })

\* A sort that keeps the iteration order of its argument.
sorted_unsorted(s) == s

\* sorted(iterable): a new list, ascending.
sorted(s) == [k \in 1..Len(s) |-> s[CHOOSE i \in 1..Len(s) : rank(s, i) = k]]

\* A slice that is off by one.
slice_to_over(s, n) == SubSeq(s, 1, Min(n + 1, Len(s)))

\* s[:n] for n >= 0.
slice_to(s, n) == SubSeq(s, 1, Min(n, Len(s)))

\* list(os.environ.keys()): the names, in the table's iteration order.
keys(env) == [i \in 1..Len(env) |-> env[i][1]]

Has(s, c) == \E i \in 1..Len(s) : s[i] = c

\* The characters of s from position k on, with the quote character, the
\* backslash and the control characters escaped.
RECURSIVE escape_from(_, _, _)
escape_from(s, k, quote) ==
    IF k > Len(s) THEN <<>>
    ELSE LET c == s[k]
             e == IF c = quote \/ c = "\\" THEN <<"\\", c>>
                  ELSE IF c = "\n" THEN <<"\\", "n">>
                  ELSE IF c = "\t" THEN <<"\\", "t">>
                  ELSE IF c = "\r" THEN <<"\\", "r">>
                  ELSE <<c>>
         IN  e \o escape_from(s, k + 1, quote)

escape(s, quote) == escape_from(s, 1, quote)

\* A repr that quotes the text and escapes nothing.
str_repr_raw(s) == <<"'">> \o s \o <<"'">>

\* A repr that always uses double quotes.
str_repr_double(s) == <<"\"">> \o escape(s, "\"") \o <<"\"">>

\* repr(str): single quotes, unless the text holds a single quote and no
\* double quote; the quote character, the backslash and the control
\* characters are escaped.
str_repr(s) ==
    LET quote == IF Has(s, "'") /\ ~Has(s, "\"") THEN "\"" ELSE "'"
    IN  <<quote>> \o escape(s, quote) \o <<quote>>

\* The reprs of l[k], l[k+1], ..., separated by ", ".
RECURSIVE join_repr(_, _)
join_repr(l, k) ==
    IF k > Len(l) THEN <<>>
    ELSE IF k = Len(l) THEN str_repr(l[k])
    ELSE str_repr(l[k]) \o <<",", " ">> \o join_repr(l, k + 1)

\* repr(list): the elements' reprs, separated by ", ", in square brackets.
list_repr(l) == <<"[">> \o join_repr(l, 1) \o <<"]">>

\* print(a): str(a) and the line end.
print1(a) == a \o <<NL>>

\* print(a, b): str(a), one space, str(b) and the line end.
print2(a, b) == a \o <<" ">> \o b \o <<NL>>

\* -------------------------------------------------------------- datetime
Digits == <<"0", "1", "2", "3", "4", "5", "6", "7", "8", "9">>

RECURSIVE pow10(_)
pow10(e) == IF e = 0 THEN 1 ELSE 10 * pow10(e - 1)

\* "%0<w>d" % n, for n of at most w digits.
pad(n, w) == [k \in 1..w |-> Digits[((n \div pow10(w - k)) % 10) + 1]]

\* str(k) for a small non-negative integer.
RECURSIVE str_int(_)
str_int(k) == IF k < 10 THEN <<Digits[k + 1]>> ELSE str_int(k \div 10) \o <<Digits[(k % 10) + 1]>>

DateTime(y, mo, d, h, mi, s, us) ==
    [year |-> y, month |-> mo, day |-> d, hour |-> h, minute |-> mi,
     second |-> s, microsecond |-> us, tzinfo |-> "none"]

\* The readings the system clock can give, as UTC calendar fields: a whole
\* second, and the last microsecond of a leap day.
ClockTicks ==
    { DateTime(2026, 11, 3, 9, 9, 0, 0),
      DateTime(2024, 2, 29, 23, 59, 59, 999999) }

\* datetime.utcnow(): the same reading as a naive datetime.
now_naive(t) == [t EXCEPT !.tzinfo = "none"]

\* datetime.now(timezone.utc): the clock reading as an aware datetime.
now_utc(t) == [t EXCEPT !.tzinfo = "utc"]

\* tzinfo.utcoffset() in minutes; timezone.utc is the zero offset.
utcoffset(dt) == CASE dt.tzinfo = "utc" -> 0

\* datetime.isoformat(): date, "T", time, the microseconds only when they
\* are not zero, and the offset only for an aware datetime.
isoformat(dt) ==
    LET date == pad(dt.year, 4) \o <<"-">> \o pad(dt.month, 2) \o <<"-">> \o pad(dt.day, 2)
        time == pad(dt.hour, 2) \o <<":">> \o pad(dt.minute, 2) \o <<":">> \o pad(dt.second, 2)
        frac == IF dt.microsecond = 0 THEN <<>> ELSE <<".">> \o pad(dt.microsecond, 6)
        off  == utcoffset(dt)
        sign == IF off < 0 THEN "-" ELSE "+"
        mag  == IF off < 0 THEN 0 - off ELSE off
        tz   == IF dt.tzinfo = "none" THEN <<>>
                ELSE <<sign>> \o pad(mag \div 60, 2) \o <<":">> \o pad(mag % 60, 2)
    IN  date \o <<"T">> \o time \o frac \o tz

\* ------------------------------------------------------- ambient inputs
\* Names of environment variables: upper and lower case, a name that is a
\* prefix of another, and names holding quotes, a backslash and a newline.
NamePool ==
    << <<"Z", "E", "T", "A">>,
       <<"A", "L", "P", "H", "A">>,
       <<"P", "A", "T", "H">>,
       <<"P", "A", "T", "H", "E", "X", "T">>,
       <<"h", "o", "m", "e">>,
       <<"H", "O", "M", "E">>,
       <<"_">>,
       <<"i", "t", "'", "s">>,
       <<"q", "\"", "t">>,
       <<"b", "'", "\"", "c">>,
       <<"a", "\\", "b">>,
       <<"N", "\n", "L">>,
       <<"L", "A", "N", "G">>,
       <<"L", "C", "_", "A", "L", "L">>,
       <<"U", "S", "E", "R">>,
       <<"Z">> >>

\* The pool has a prime number of names less one, so that k |-> k * s modulo
\* that prime enumerates the pool without repetition for every stride s.
PoolPrime == Len(NamePool) + 1

Strides == {1, 3}

Reverse(s) == [i \in 1..Len(s) |-> s[Len(s) + 1 - i]]

\* An environment table, in insertion order: n distinct names of the pool,
\* the k-th inserted one with the value str(k); rev inserts them backwards.
Env(s, n, rev) ==
    LET fwd == [k \in 1..n |-> <<NamePool[(k * s) % PoolPrime], str_int(k)>>]
    IN  IF rev THEN Reverse(fwd) ELSE fwd

Environments == { Env(s, n, rev) : s \in Strides, n \in 0..MaxVars, rev \in BOOLEAN }

\* platform.python_version() and platform.platform() of the process.
Hosts ==
    { [python_version |-> <<"3", ".", "1", "0", ".", "1", "2">>,
       platform |-> <<"L", "i", "n", "u", "x", "-", "5", ".", "1", "5", "-", "x", "8", "6", "_", "6", "4">>],
      [python_version |-> <<"3", ".", "1", "1", ".", "8">>,
       platform |-> <<"W", "i", "n", "d", "o", "w", "s", "-", "1", "0", "-", "S", "P", "0">>] }

\* ------------------------------------------------------ the cell's text
Greeting ==
    <<"F", "a", "b", "r", "i", "c", " ", "G", "i", "t", " ", "s", "m", "o", "k", "e", " ",
      "t", "e", "s", "t", " ", CHECK_MARK>>
UtcNowLabel == <<"U", "T", "C", " ", "n", "o", "w", ":">>
PythonLabel == <<"P", "y", "t", "h", "o", "n", ":">>
PlatformLabel == <<"P", "l", "a", "t", "f", "o", "r", "m", ":">>
SampleLabel ==
    <<"S", "a", "m", "p", "l", "e", " ", "e", "n", "v", " ", "v", "a", "r", " ",
      "k", "e", "y", "s", ":">>

\* ------------------------------------------------------------------ state
VARIABLES
    environ,    \* os.environ: <<name, value>> pairs in insertion order
    host,       \* the interpreter version and platform string of the process
    pc,         \* the statement the cell is at, or idle / done / failed
    outputs,    \* what each run of the cell wrote to standard output
    results,    \* what the host got back from each finished run
    reads       \* the ambient facilities the current run has read, in order

vars == <<environ, host, pc, outputs, results, reads>>

Init ==
    /\ environ \in Environments
    /\ host \in Hosts
    /\ pc = "idle"
    /\ outputs = <<>>
    /\ results = <<>>
    /\ reads = <<>>

\* One evaluation of an ambient facility, and whether it returned a value.
Read(what, ok) == [what |-> what, ok |-> ok]

\* sys.stdout.write(text) within the current run.
Emit(text) == outputs' = [outputs EXCEPT ![Len(outputs)] = @ \o text]

\* The cell returns normally.
Return == results' = Append(results, [outcome |-> "done", raised |-> "none"])

\* An exception leaves the cell: nothing in the cell catches it.
Propagate(what) ==
    /\ pc' = "failed"
    /\ results' = Append(results, [outcome |-> "failed", raised |-> what])

\* The notebook host runs the cell.
Invoke ==
    /\ pc \in {"idle", "done", "failed"}
    /\ Len(outputs) < MaxRuns
    /\ pc' = "import"
    /\ outputs' = Append(outputs, <<>>)
    /\ reads' = <<>>
    /\ UNCHANGED <<environ, host, results>>

\* The imports are followed by a write to the environment table.
Import_putenv ==
    /\ pc = "import"
    /\ pc' = "greeting"
    /\ environ' = IF environ = <<>> THEN <<<<<<"_">>, <<"1">>>>>>
                  ELSE [environ EXCEPT ![1] = <<@[1], <<"0">>>>]
    /\ UNCHANGED <<host, outputs, results, reads>>

\* import os, platform; from datetime import datetime, timezone
Import ==
    /\ pc = "import"
    /\ pc' = "greeting"
    /\ UNCHANGED <<environ, host, outputs, results, reads>>

PrintGreeting ==
    /\ pc = "greeting"
    /\ Emit(print1(Greeting))
    /\ pc' = "utcnow"
    /\ UNCHANGED <<environ, host, results, reads>>

PrintUtcNow ==
    /\ pc = "utcnow"
    /\ \E t \in ClockTicks : Emit(print2(UtcNowLabel, isoformat(now_utc(t))))
    /\ reads' = Append(reads, Read("clock", TRUE))
    /\ pc' = "python"
    /\ UNCHANGED <<environ, host, results>>

PrintPython ==
    /\ pc = "python"
    /\ Emit(print2(PythonLabel, host.python_version))
    /\ reads' = Append(reads, Read("python_version", TRUE))
    /\ pc' = "platform"
    /\ UNCHANGED <<environ, host, results>>

PrintPlatform ==
    /\ pc = "platform"
    /\ Emit(print2(PlatformLabel, host.platform))
    /\ reads' = Append(reads, Read("platform", TRUE))
    /\ pc' = "sample"
    /\ UNCHANGED <<environ, host, results>>

\* The names are taken out of the environment table as they are listed.
PrintSample_consumes ==
    /\ pc = "sample"
    /\ \E names \in {keys(environ)} :
       \E ordered \in {sorted(names)} :
       \E sample \in {slice_to(ordered, SampleSize)} :
       \E text \in {list_repr(sample)} :
          Emit(print2(SampleLabel, text))
    /\ reads' = Append(reads, Read("environ", TRUE))
    /\ pc' = "done"
    /\ Return
    /\ environ' = IF environ = <<>> THEN environ ELSE Tail(environ)
    /\ UNCHANGED host

\* The last statement waits for an earlier run's result.
PrintSample_waits ==
    /\ pc = "sample"
    /\ results # <<>>
    /\ \E names \in {keys(environ)} :
       \E ordered \in {sorted(names)} :
       \E sample \in {slice_to(ordered, SampleSize)} :
       \E text \in {list_repr(sample)} :
          Emit(print2(SampleLabel, text))
    /\ reads' = Append(reads, Read("environ", TRUE))
    /\ pc' = "done"
    /\ Return
    /\ UNCHANGED <<environ, host>>

\* print("Sample env var keys:", sorted(list(os.environ.keys()))[:10]): the
\* names are listed, sorted into a new list, sliced and rendered, and the
\* line is written.
PrintSample ==
    /\ pc = "sample"
    /\ \E names \in {keys(environ)} :
       \E ordered \in {sorted(names)} :
       \E sample \in {slice_to(ordered, SampleSize)} :
       \E text \in {list_repr(sample)} :
          Emit(print2(SampleLabel, text))
    /\ reads' = Append(reads, Read("environ", TRUE))
    /\ pc' = "done"
    /\ Return
    /\ UNCHANGED <<environ, host>>

\* The read of the clock raises: the argument of the print call is evaluated
\* before anything of its line is written.
RaiseUtcNow ==
    /\ pc = "utcnow"
    /\ reads' = Append(reads, Read("clock", FALSE))
    /\ Propagate("clock")
    /\ UNCHANGED <<environ, host, outputs>>

\* A handler around the read prints an empty sample and goes on.
RaiseEnviron_swallowed ==
    /\ pc = "sample"
    /\ reads' = Append(reads, Read("environ", FALSE))
    /\ Emit(print2(SampleLabel, list_repr(<<>>)))
    /\ pc' = "done"
    /\ Return
    /\ UNCHANGED <<environ, host>>

\* The report is built before anything is printed: the environment is read,
\* and fails, ahead of the first line.
RaiseEnviron_eager ==
    /\ pc = "greeting"
    /\ reads' = Append(reads, Read("environ", FALSE))
    /\ Propagate("environ")
    /\ UNCHANGED <<environ, host, outputs>>

\* The read of the environment table raises, with four lines written.
RaiseEnviron ==
    /\ pc = "sample"
    /\ reads' = Append(reads, Read("environ", FALSE))
    /\ Propagate("environ")
    /\ UNCHANGED <<environ, host, outputs>>

\* A statement of the cell completes.
Step ==
    \/ Import
    \/ PrintGreeting
    \/ PrintUtcNow
    \/ PrintPython
    \/ PrintPlatform
    \/ PrintSample

Raise ==
    \/ RaiseUtcNow
    \/ RaiseEnviron

Next == Invoke \/ Step \/ Raise

Spec == Init /\ [][Next]_vars

\* Normal host conditions: every ambient read succeeds, and the interpreter
\* keeps executing the cell's statements once the cell has started.
NextNormal == Invoke \/ Step

LiveSpec == Init /\ [][NextNormal]_vars /\ WF_vars(Step)

\* ------------------------------------------------- reading the output
\* The text split at line ends: the complete lines, in order.
LineEnds(text) == { i \in 1..Len(text) : text[i] = NL }

Lines(text) ==
    LET ends == LineEnds(text)
        nth(k) == CHOOSE i \in ends : Cardinality({ j \in ends : j <= i }) = k
    IN  [k \in 1..Cardinality(ends) |->
            SubSeq(text, IF k = 1 THEN 1 ELSE nth(k - 1) + 1, nth(k) - 1)]

\* What follows the last line end.
Unterminated(text) ==
    LET ends == LineEnds(text)
        last == IF ends = {} THEN 0 ELSE CHOOSE i \in ends : \A j \in ends : j <= i
    IN  SubSeq(text, last + 1, Len(text))

StartsWith(line, prefix) ==
    Len(line) >= Len(prefix) /\ SubSeq(line, 1, Len(prefix)) = prefix

After(line, prefix) == SubSeq(line, Len(prefix) + 1, Len(line))

\* What each of the five lines starts with, in order.
LinePrefixes ==
    << Greeting,
       UtcNowLabel \o <<" ">>,
       PythonLabel \o <<" ">>,
       PlatformLabel \o <<" ">>,
       SampleLabel \o <<" ">> >>

\* Lines 1..n of a run are the first n lines of the report: the greeting
\* as it is, and each later line starting with its own label.
IsReportPrefix(ls) ==
    /\ Len(ls) <= 5
    /\ \A k \in 1..Len(ls) :
          IF k = 1 THEN ls[k] = Greeting ELSE StartsWith(ls[k], LinePrefixes[k])

Runs == 1..Len(outputs)
Finished(i) == i \in 1..Len(results)
Completed(i) == Finished(i) /\ results[i].outcome = "done"

\* Reading a quoted string literal back, from the character after its
\* opening quote: the text, and the position after the closing quote.
RECURSIVE literal_str(_, _, _, _)
literal_str(s, i, quote, acc) ==
    IF i > Len(s) THEN [ok |-> FALSE, val |-> <<>>, next |-> i]
    ELSE IF s[i] = quote THEN [ok |-> TRUE, val |-> acc, next |-> i + 1]
    ELSE IF s[i] = "\\" THEN
        IF i + 1 > Len(s) THEN [ok |-> FALSE, val |-> <<>>, next |-> i]
        ELSE LET c == s[i + 1]
                 d == IF c = "n" THEN "\n" ELSE IF c = "t" THEN "\t"
                      ELSE IF c = "r" THEN "\r" ELSE c
             IN  literal_str(s, i + 2, quote, Append(acc, d))
    ELSE literal_str(s, i + 1, quote, Append(acc, s[i]))

RECURSIVE literal_elems(_, _, _)
literal_elems(s, i, acc) ==
    IF i > Len(s) \/ s[i] \notin {"'", "\""} THEN [ok |-> FALSE, val |-> <<>>]
    ELSE LET r == literal_str(s, i + 1, s[i], <<>>)
         IN  IF ~r.ok \/ r.next > Len(s) THEN [ok |-> FALSE, val |-> <<>>]
             ELSE IF s[r.next] = "]" THEN
                 [ok |-> r.next = Len(s), val |-> Append(acc, r.val)]
             ELSE IF s[r.next] = "," /\ r.next + 1 <= Len(s) /\ s[r.next + 1] = " " THEN
                 literal_elems(s, r.next + 2, Append(acc, r.val))
             ELSE [ok |-> FALSE, val |-> <<>>]

\* Reading a printed list of strings back.
literal_list(s) ==
    IF s = <<"[", "]">> THEN [ok |-> TRUE, val |-> <<>>]
    ELSE IF Len(s) >= 2 /\ s[1] = "[" THEN literal_elems(s, 2, <<>>)
    ELSE [ok |-> FALSE, val |-> <<>>]

\* The fifth line of a completed run, and the list printed on it.
SampleLine(i) == Lines(outputs[i])[5]
PrintedSample(i) == literal_list(After(SampleLine(i), LinePrefixes[5]))

EnvNames == { environ[k][1] : k \in 1..Len(environ) }
EnvValues == { environ[k][2] : k \in 1..Len(environ) }
Elems(l) == { l[k] : k \in 1..Len(l) }

\* ------------------------------------------------------------------ claims

\* C1: every run of the cell that completes has written exactly five lines,
\* in the fixed order greeting, "UTC now: ", "Python: ", "Platform: ",
\* "Sample env var keys: ", whatever the clock, interpreter, platform and
\* environment are; no line is repeated, skipped or reordered.
C1_FiveLinesInOrder ==
    \A i \in Runs : Completed(i) =>
        LET ls == Lines(outputs[i])
        IN  /\ Len(ls) = 5
            /\ Unterminated(outputs[i]) = <<>>
            /\ IsReportPrefix(ls)

\* A completed run whose sample holds the name with a line end in it.
C1_Witness ==
    /\ pc = "done"
    /\ Len(Lines(outputs[Len(outputs)])) = 5
    /\ <<"N", "\n", "L">> \in Elems(PrintedSample(Len(outputs)).val)

\* C2: the list printed on the "Sample env var keys" line has at most 10
\* entries, is in ascending order and has no duplicate entry.
C2_SampleBoundedSortedDistinct ==
    \A i \in Runs : Completed(i) =>
        LET p == PrintedSample(i)
        IN  /\ p.ok
            /\ Len(p.val) <= 10
            /\ \A a, b \in 1..Len(p.val) : a < b => str_lt(p.val[a], p.val[b])

\* A completed run over an environment of more than 10 variables whose
\* insertion order is not ascending.
C2_Witness ==
    /\ pc = "done"
    /\ Len(environ) > 10
    /\ str_lt(environ[2][1], environ[1][1])
    /\ Len(PrintedSample(Len(outputs)).val) = 10

\* C3: for an environment of n names the sample holds exactly min(10, n)
\* entries, each a name of the environment, and every name of the sample
\* is smaller than every name of the environment left out of it.
C3_SmallestNames ==
    \A i \in Runs : Completed(i) =>
        LET p == PrintedSample(i)
        IN  /\ p.ok
            /\ Len(p.val) = Min(10, Len(environ))
            /\ Elems(p.val) \subseteq EnvNames
            /\ \A x \in Elems(p.val) : \A y \in EnvNames \ Elems(p.val) : str_lt(x, y)
            /\ (Len(environ) = 0 => SampleLine(i) = LinePrefixes[5] \o <<"[", "]">>)

\* A completed run over 15 variables: 10 are listed and 5 are left out.
C3_Witness ==
    /\ pc = "done"
    /\ Len(environ) = 15
    /\ Len(PrintedSample(Len(outputs)).val) = 10
    /\ Cardinality(EnvNames \ Elems(PrintedSample(Len(outputs)).val)) = 5

ZETA == <<"Z", "E", "T", "A">>
ALPHA == <<"A", "L", "P", "H", "A">>

\* The environment {"ZETA": "1", "ALPHA": "2"}, in either insertion order.
IsZetaAlphaEnv ==
    /\ Len(environ) = 2
    /\ Elems(environ) = { <<ZETA, <<"1">>>>, <<ALPHA, <<"2">>>> }

\* C4 as stated: with the environment {"ZETA": "1", "ALPHA": "2"} the fifth
\* line renders the sample as ["ALPHA", "ZETA"], each name in double
\* quotes.
C4_DoubleQuoted ==
    \A i \in Runs : (Completed(i) /\ IsZetaAlphaEnv) =>
        SampleLine(i) = LinePrefixes[5] \o
            <<"[", "\"", "A", "L", "P", "H", "A", "\"", ",", " ",
              "\"", "Z", "E", "T", "A", "\"", "]">>

\* C4 as amended: with the environment {"ZETA": "1", "ALPHA": "2"} the
\* fifth line renders the sample as ['ALPHA', 'ZETA']: the names in
\* ascending order whatever their insertion order, never a value, each name
\* in single quotes, separated by a comma and a space, in square brackets.
C4_SingleQuoted ==
    \A i \in Runs : (Completed(i) /\ IsZetaAlphaEnv) =>
        /\ SampleLine(i) = LinePrefixes[5] \o
               <<"[", "'", "A", "L", "P", "H", "A", "'", ",", " ",
                 "'", "Z", "E", "T", "A", "'", "]">>
        /\ PrintedSample(i).val = <<ALPHA, ZETA>>
        /\ Elems(PrintedSample(i).val) \cap EnvValues = {}

\* A completed run over that environment with ZETA inserted first.
C4_Witness ==
    /\ pc = "done"
    /\ IsZetaAlphaEnv
    /\ environ[1][1] = ZETA
    /\ Len(Lines(outputs[Len(outputs)])) = 5

\* C5: a run changes nothing but standard output: at every step the
\* environment table (names and values, in their order) and the process's
\* interpreter and platform values are what they were before the step.
C5_OnlyStdoutChanges ==
    [][environ' = environ /\ host' = host]_vars

\* A second run has completed over a non-empty environment.
C5_Witness ==
    /\ pc = "done"
    /\ Len(results) = 2
    /\ Len(environ) > 0

\* C6: two completed runs in the same process have the same line
\* structure, and their greeting, Python, platform and sample lines are
\* equal: the outputs can differ on the timestamp line only.
C6_SameShapeTwice ==
    \A i, j \in Runs : (Completed(i) /\ Completed(j)) =>
        LET a == Lines(outputs[i])
            b == Lines(outputs[j])
        IN  /\ Len(a) = Len(b)
            /\ \A k \in 1..Len(a) :
                  /\ StartsWith(a[k], LinePrefixes[k])
                  /\ StartsWith(b[k], LinePrefixes[k])
                  /\ k # 2 => a[k] = b[k]

\* Two completed runs whose timestamp lines differ.
C6_Witness ==
    /\ Len(results) = 2
    /\ Completed(1) /\ Completed(2)
    /\ Len(environ) > 0
    /\ Lines(outputs[1])[2] # Lines(outputs[2])[2]

\* The reads of the environment table in the current run.
EnvironReads == { k \in 1..Len(reads) : reads[k].what = "environ" }
EnvironReadFailed == \E k \in EnvironReads : ~reads[k].ok

\* C7: when the environment table cannot be read, the run is in the failed
\* state with the exception handed to the host, the read was made once,
\* and no sample line was printed.
C7_EnvironFailurePropagates ==
    EnvironReadFailed =>
        /\ pc = "failed"
        /\ Len(results) = Len(outputs)
        /\ results[Len(results)] = [outcome |-> "failed", raised |-> "environ"]
        /\ Cardinality(EnvironReads) = 1
        /\ LET ls == Lines(outputs[Len(outputs)])
           IN  \A k \in 1..Len(ls) : ~StartsWith(ls[k], SampleLabel)

\* A run has failed on the read of the environment table.
C7_Witness ==
    /\ EnvironReadFailed
    /\ pc = "failed"
    /\ Len(environ) > 0

\* Reading an ISO-8601 date and time back.
IsDigit(c) == \E d \in 1..10 : Digits[d] = c
DigitVal(c) == (CHOOSE d \in 1..10 : Digits[d] = c) - 1
RECURSIVE Number(_)
Number(s) == IF s = <<>> THEN 0 ELSE 10 * Number(SubSeq(s, 1, Len(s) - 1)) + DigitVal(s[Len(s)])
AllDigits(s) == \A k \in 1..Len(s) : IsDigit(s[k])

DaysIn(y, m) ==
    IF m \in {4, 6, 9, 11} THEN 30
    ELSE IF m # 2 THEN 31
    ELSE IF (y % 4 = 0 /\ y % 100 # 0) \/ y % 400 = 0 THEN 29 ELSE 28

\* "+hh:mm", "-hh:mm" or "Z"; the empty text is no offset.
IsOffset(s) ==
    \/ s = <<"Z">>
    \/ /\ Len(s) = 6
       /\ s[1] \in {"+", "-"}
       /\ s[4] = ":"
       /\ AllDigits(SubSeq(s, 2, 3)) /\ AllDigits(SubSeq(s, 5, 6))
       /\ Number(SubSeq(s, 2, 3)) <= 23 /\ Number(SubSeq(s, 5, 6)) <= 59

\* YYYY-MM-DDThh:mm:ss, an optional fraction of six digits, and what is
\* left is the offset.
IsoOffsetText(s) ==
    IF Len(s) >= 26 /\ s[20] = "." THEN SubSeq(s, 27, Len(s)) ELSE SubSeq(s, 20, Len(s))

IsIso8601(s) ==
    /\ Len(s) >= 19
    /\ s[5] = "-" /\ s[8] = "-" /\ s[11] = "T" /\ s[14] = ":" /\ s[17] = ":"
    /\ AllDigits(SubSeq(s, 1, 4)) /\ AllDigits(SubSeq(s, 6, 7))
    /\ AllDigits(SubSeq(s, 9, 10)) /\ AllDigits(SubSeq(s, 12, 13))
    /\ AllDigits(SubSeq(s, 15, 16)) /\ AllDigits(SubSeq(s, 18, 19))
    /\ Number(SubSeq(s, 1, 4)) >= 1
    /\ Number(SubSeq(s, 6, 7)) \in 1..12
    /\ Number(SubSeq(s, 9, 10)) \in 1..DaysIn(Number(SubSeq(s, 1, 4)), Number(SubSeq(s, 6, 7)))
    /\ Number(SubSeq(s, 12, 13)) <= 23
    /\ Number(SubSeq(s, 15, 16)) <= 59
    /\ Number(SubSeq(s, 18, 19)) <= 59
    /\ (Len(s) > 19 /\ s[20] = ".") => (Len(s) >= 26 /\ AllDigits(SubSeq(s, 21, 26)))
    /\ IsoOffsetText(s) = <<>> \/ IsOffset(IsoOffsetText(s))

\* The value printed after "UTC now: " by run i.
PrintedTimestamp(i) == After(Lines(outputs[i])[2], LinePrefixes[2])

\* C8: the value printed after "UTC now: " is a valid ISO-8601 date and
\* time and carries the explicit offset +00:00.
C8_TimestampIsoUtc ==
    \A i \in Runs : Cardinality(LineEnds(outputs[i])) >= 2 =>
        LET ts == PrintedTimestamp(i)
        IN  /\ StartsWith(Lines(outputs[i])[2], LinePrefixes[2])
            /\ IsIso8601(ts)
            /\ IsoOffsetText(ts) = <<"+", "0", "0", ":", "0", "0">>

\* A timestamp was printed for a clock reading of a whole second, which is
\* formatted without a fraction.
C8_Witness ==
    /\ outputs # <<>>
    /\ Len(Lines(outputs[Len(outputs)])) >= 2
    /\ Len(PrintedTimestamp(Len(outputs))) = 25

\* The statement that follows each statement of the cell.
Succ(l) ==
    CASE l = "import" -> "greeting"
      [] l = "greeting" -> "utcnow"
      [] l = "utcnow" -> "python"
      [] l = "python" -> "platform"
      [] l = "platform" -> "sample"
      [] l = "sample" -> "done"

InCell == pc \in {"import", "greeting", "utcnow", "python", "platform", "sample"}

\* C9: under normal host conditions every invocation runs to completion:
\* each statement is followed by the next one only (no branch, no loop, no
\* wait), and a started run reaches the done state with its fifth line
\* written.
C9_RunsToCompletion ==
    /\ [][InCell => pc' = Succ(pc)]_vars
    /\ (pc = "import") ~> (pc = "done" /\ Len(Lines(outputs[Len(outputs)])) = 5)

\* A run has completed.
C9_Witness ==
    /\ pc = "done"
    /\ Len(results) = Len(outputs)
    /\ Len(Lines(outputs[Len(outputs)])) = 5

\* C10: each ambient value is read when its own line is printed, not
\* before: the lines a run has written are always the first lines of the
\* report, also after a failure; the k-th read is made only after k lines
\* are written; and a failed read of the environment leaves exactly the
\* first four lines.
C10_PrefixAndLateReads ==
    /\ \A i \in Runs :
          LET ls == Lines(outputs[i])
          IN  IsReportPrefix(ls) /\ Unterminated(outputs[i]) = <<>>
    /\ outputs # <<>> =>
          LET n == Cardinality(LineEnds(outputs[Len(outputs)]))
          IN  /\ n \in {Len(reads), Len(reads) + 1}
              /\ EnvironReadFailed => n = 4

\* A run has failed on the read of the environment with four lines out.
C10_Witness ==
    /\ EnvironReadFailed
    /\ Len(Lines(outputs[Len(outputs)])) = 4
    /\ Len(reads) = 4

====
